---- MODULE Spec2Model ----
(***************************************************************************)
(* Model of backend/main.py (Nola Analytics - Minimal Backend): the        *)
(* process-wide TABLE_CACHE filled by get_table, the filter, metric and    *)
(* grouping compilation of POST /query, and the statement it executes.     *)
(*                                                                         *)
(* Python values are modelled as follows.                                  *)
(*   str            a TLA+ string, read character by character with SubSeq *)
(*   Optional[x]    None is <<>>, a present value x is <<x>>               *)
(*   Any (a filter's value)  a tagged tuple: <<"int", n>>, <<"str", s>>,   *)
(*                  <<"list", items>>, <<"null">>                          *)
(*   Table          [name |-> table name, cols |-> set of column names]    *)
(*   HTTPException  [ok |-> FALSE, status, kind, detail]; kind names the   *)
(*                  raise site in the error taxonomy of the design         *)
(***************************************************************************)
EXTENDS Integers, Sequences, FiniteSets, TLC

VARIABLES db, TABLE_CACHE, pc, req, tbl, stmt, resp, log, written, returned, probe

vars == <<db, TABLE_CACHE, pc, req, tbl, stmt, resp, log, written, returned, probe>>

\* ------------------------------------------------------------ bounds
NumTasks == 2
MaxGroup == 1
MaxMetrics == 1
MaxFilters == 2
MaxLen == 3

\* QueryRequest.limit: Optional[int] = 1000
DefaultLimit == 1000

\* ------------------------------------------------------------ Python values
None == <<>>

Some(x) == <<x>>

\* bool(x) of an Optional[str]: None and "" are falsy
TruthyStr(o) == o # None /\ o[1] # ""

\* bool(x) of an Optional[int]: None and 0 are falsy
TruthyInt(o) == o # None /\ o[1] # 0

\* bool(x) of an Optional[List]: None and [] are falsy
TruthyList(o) == o # None /\ Len(o[1]) > 0

Upper == "ABCDEFGHIJKLMNOPQRSTUVWXYZ"

LowerAlpha == "abcdefghijklmnopqrstuvwxyz"

CharAt(s, i) == SubSeq(s, i, i)

LowerChar(c) ==
    IF \E i \in 1..Len(Upper) : CharAt(Upper, i) = c
    THEN CharAt(LowerAlpha, CHOOSE i \in 1..Len(Upper) : CharAt(Upper, i) = c)
    ELSE c

RECURSIVE LowerFrom(_, _)
LowerFrom(s, i) == IF i > Len(s) THEN "" ELSE LowerChar(CharAt(s, i)) \o LowerFrom(s, i + 1)

\* str.lower()
Lower(s) == LowerFrom(s, 1)

\* sub in s
Contains(s, sub) == \E i \in 1..(Len(s) - Len(sub) + 1) : SubSeq(s, i, i + Len(sub) - 1) = sub

\* s.count(c) for a one-character c
Count(s, c) == Cardinality({i \in 1..Len(s) : CharAt(s, i) = c})

Digits == "0123456789"

RECURSIVE NatToStr(_)
NatToStr(n) ==
    IF n < 10 THEN CharAt(Digits, n + 1)
    ELSE NatToStr(n \div 10) \o CharAt(Digits, (n % 10) + 1)

IntToStr(n) == IF n < 0 THEN "-" \o NatToStr(0 - n) ELSE NatToStr(n)

RECURSIVE ReprItems(_, _)
ReprItems(l, i) ==
    IF i > Len(l) THEN ""
    ELSE (IF i > 1 THEN ", " ELSE "") \o "'" \o l[i] \o "'" \o ReprItems(l, i + 1)

\* str(value)
PyStr(v) ==
    CASE v[1] = "str" -> v[2]
      [] v[1] = "int" -> IntToStr(v[2])
      [] v[1] = "list" -> "[" \o ReprItems(v[2], 1) \o "]"
      [] OTHER -> "None"

\* a check that takes any value for a list
IsListAny(v) == TRUE

\* isinstance(value, list)
IsList(v) == v[1] = "list"

\* tbl.c.get(name): the column, or None
ColGet(t, name) == IF name \in t.cols THEN Some(name) ELSE None

HTTPException(status, kind, detail) == [ok |-> FALSE, status |-> status, kind |-> kind, detail |-> detail]

\* ------------------------------------------------------------ _apply_filter_clause
Clause(col, cmp, param) == [ok |-> TRUE, col |-> col, cmp |-> cmp, param |-> param]

\* a dispatch that also knows gt, lt, gte and lte
FilterCmpWords(op) ==
    IF op \in {"=", "eq"} THEN "=="
    ELSE IF op \in {"!=", "ne"} THEN "!="
    ELSE IF op \in {">", "gt"} THEN ">"
    ELSE IF op \in {"<", "lt"} THEN "<"
    ELSE IF op \in {">=", "gte"} THEN ">="
    ELSE IF op \in {"<=", "lte"} THEN "<="
    ELSE IF op = "in" THEN "in"
    ELSE IF op = "like" THEN "like"
    ELSE ""

\* the chain of tests on op, lines 53-71: the comparison built, "" when no
\* test matches
FilterCmp(op) ==
    IF op \in {"=", "eq"} THEN "=="
    ELSE IF op \in {"!=", "ne"} THEN "!="
    ELSE IF op = ">" THEN ">"
    ELSE IF op = "<" THEN "<"
    ELSE IF op = ">=" THEN ">="
    ELSE IF op = "<=" THEN "<="
    ELSE IF op = "in" THEN "in"
    ELSE IF op = "like" THEN "like"
    ELSE ""

\* f is a FilterItem [column, op, value]; the result is the clause bound to the
\* value as a parameter, or the HTTPException raised
_apply_filter_clause(t, f) ==
    LET col == ColGet(t, f.column)
        cmp == FilterCmp(Lower(f.op))
    IN  IF col = None THEN HTTPException(400, "UnknownColumnError", "Unknown column: " \o f.column)
        ELSE IF cmp = "in" THEN
            IF ~IsList(f.value)
            THEN HTTPException(400, "ValidationError", "Value for 'in' must be a list")
            ELSE Clause(col[1], "in", f.value)
        ELSE IF cmp = "like" THEN Clause(col[1], "like", <<"str", PyStr(f.value)>>)
        ELSE IF cmp # "" THEN Clause(col[1], cmp, f.value)
        ELSE HTTPException(400, "UnsupportedOperatorError", "Unsupported filter op: " \o f.op)

\* ------------------------------------------------------------ query: grouping
\* a test that forgets the cast marker
IsRawNoCast(g) == Contains(g, "(") \/ Count(g, " ") > 0

\* "(" in g or "::" in g or g.count(" ") > 0
IsRaw(g) == Contains(g, "(") \/ Contains(g, "::") \/ Count(g, " ") > 0

\* one pass of the loop over req.group_by: the select item, or the exception
GroupItem(t, g) ==
    IF IsRaw(g) THEN [ok |-> TRUE, kind |-> "text", sql |-> g]
    ELSE IF ColGet(t, g) = None
         THEN HTTPException(400, "UnknownColumnError", "Unknown group_by column: " \o g)
         ELSE [ok |-> TRUE, kind |-> "col", name |-> g]

\* ------------------------------------------------------------ query: metrics
Agg(fn, arg, alias) == [ok |-> TRUE, kind |-> "agg", fn |-> fn, arg |-> arg, label |-> alias]

\* f"{op}_{m.column}": a missing column is formatted, not replaced by 'all'
MetricAliasNone(m, op) ==
    IF TruthyStr(m.alias) THEN m.alias[1]
    ELSE op \o "_" \o (IF m.column = None THEN "None" ELSE m.column[1])

\* alias = m.alias or f"{op}_{m.column or 'all'}"
MetricAlias(m, op) ==
    IF TruthyStr(m.alias) THEN m.alias[1]
    ELSE op \o "_" \o (IF TruthyStr(m.column) THEN m.column[1] ELSE "all")

\* a compiler that tests the operation name before it looks at the column, and
\* looks the column up for count as well
MetricItemOpFirst(t, m) ==
    LET op == Lower(m.op)
    IN  IF op \notin {"count", "sum", "avg", "max", "min"}
        THEN HTTPException(400, "UnsupportedAggregateError", "Unsupported metric op: " \o m.op)
        ELSE IF op = "count" /\ ~TruthyStr(m.column) THEN Agg("count", Some("*"), MetricAlias(m, op))
        ELSE IF ~TruthyStr(m.column)
             THEN HTTPException(400, "MissingColumnError", "Metric " \o m.op \o " needs a column")
        ELSE IF ColGet(t, m.column[1]) = None
             THEN HTTPException(400, "UnknownColumnError", "Unknown metric column: " \o m.column[1])
        ELSE Agg(op, ColGet(t, m.column[1]), MetricAlias(m, op))

\* one pass of the loop over req.metrics; m is a Metric [op, column, alias].
\* The argument of the aggregate is <<"*">> (func.count()), <<c>> (a column) or
\* None (func.count(tbl.c.get(...)) of a column the table does not have).
MetricItem(t, m) ==
    LET op == Lower(m.op)
    IN  IF op = "count" THEN
            IF ~TruthyStr(m.column) THEN Agg("count", Some("*"), MetricAlias(m, op))
            ELSE Agg("count", ColGet(t, m.column[1]), MetricAlias(m, op))
        ELSE IF ~TruthyStr(m.column)
             THEN HTTPException(400, "MissingColumnError", "Metric " \o m.op \o " needs a column")
        ELSE IF ColGet(t, m.column[1]) = None
             THEN HTTPException(400, "UnknownColumnError", "Unknown metric column: " \o m.column[1])
        ELSE IF op \in {"sum", "avg", "max", "min"}
             THEN Agg(op, ColGet(t, m.column[1]), MetricAlias(m, op))
        ELSE HTTPException(400, "UnsupportedAggregateError", "Unsupported metric op: " \o m.op)

\* ------------------------------------------------------------ QueryRequest
\* The request model built from a JSON body [table, group_by, metrics, filters,
\* limit]. A body's limit is <<"omitted">>, <<"null">> or <<"int", n>>; an
\* omitted limit takes the field's default.
QueryRequest(body) ==
    [table |-> body.table, group_by |-> body.group_by, metrics |-> body.metrics,
     filters |-> body.filters,
     limit |-> CASE body.limit[1] = "omitted" -> Some(DefaultLimit)
                 [] body.limit[1] = "null" -> None
                 [] OTHER -> Some(body.limit[2])]

\* ------------------------------------------------------------ query: the loops
\* for g in req.group_by: the loop stops at the first exception
RECURSIVE GroupLoop(_, _, _, _)
GroupLoop(t, gs, i, acc) ==
    IF i > Len(gs) THEN [ok |-> TRUE, items |-> acc]
    ELSE LET r == GroupItem(t, gs[i])
         IN  IF r.ok THEN GroupLoop(t, gs, i + 1, Append(acc, r)) ELSE r

\* for m in req.metrics
RECURSIVE MetricLoop(_, _, _, _)
MetricLoop(t, ms, i, acc) ==
    IF i > Len(ms) THEN [ok |-> TRUE, items |-> acc]
    ELSE LET r == MetricItem(t, ms[i])
         IN  IF r.ok THEN MetricLoop(t, ms, i + 1, Append(acc, r)) ELSE r

\* a loop that compiles every term and raises the last exception
FilterLoopLast(t, fs, i, acc) ==
    LET rs == [k \in i..Len(fs) |-> _apply_filter_clause(t, fs[k])]
        bad == {k \in i..Len(fs) : ~rs[k].ok}
    IN  IF bad = {} THEN [ok |-> TRUE, items |-> acc \o [k \in 1..(Len(fs) - i + 1) |-> rs[k + i - 1]]]
        ELSE rs[CHOOSE k \in bad : \A j \in bad : j <= k]

\* clauses = [_apply_filter_clause(tbl, FilterItem(**f.dict())) for f in req.filters]
RECURSIVE FilterLoop(_, _, _, _)
FilterLoop(t, fs, i, acc) ==
    IF i > Len(fs) THEN [ok |-> TRUE, items |-> acc]
    ELSE LET r == _apply_filter_clause(t, fs[i])
         IN  IF r.ok THEN FilterLoop(t, fs, i + 1, Append(acc, r)) ELSE r

\* a default labelled like an explicit count
SelColsCountAll(aggs) == IF aggs = <<>> THEN <<Agg("count", Some("*"), "count_all")>> ELSE aggs

\* if not sel_cols: sel_cols = [func.count().label("count")]
SelCols(aggs) == IF aggs = <<>> THEN <<Agg("count", Some("*"), "count")>> ELSE aggs

\* if req.limit is not None: a limit of 0 is attached
LimitClauseNotNone(limit) == limit

\* if req.limit: stmt = stmt.limit(req.limit)
LimitClause(limit) == IF TruthyInt(limit) THEN limit ELSE None

\* select(*group_cols, *sel_cols).select_from(tbl), then .where(c) for each
\* clause, .group_by(*group_cols) if there are any, and the limit
Assemble(t, group_cols, sel_cols, clauses, limit) ==
    [select |-> group_cols \o sel_cols, from |-> t.name, where |-> clauses,
     group_by |-> group_cols, limit |-> LimitClause(limit)]

\* ------------------------------------------------------------ query: lines 89-141
\* The body of query between the return of get_table and the execution: the
\* phases entered, in order, and the statement or the exception raised.
Compile(t, r) ==
    LET g == IF TruthyList(r.group_by) THEN GroupLoop(t, r.group_by[1], 1, <<>>)
             ELSE [ok |-> TRUE, items |-> <<>>]
    IN  IF ~g.ok THEN [ok |-> FALSE, phases |-> <<"grouping">>, error |-> g]
        ELSE
        LET m == IF TruthyList(r.metrics) THEN MetricLoop(t, r.metrics[1], 1, <<>>)
                 ELSE [ok |-> TRUE, items |-> <<>>]
        IN  IF ~m.ok THEN [ok |-> FALSE, phases |-> <<"grouping", "metrics">>, error |-> m]
            ELSE
            LET f == IF TruthyList(r.filters) THEN FilterLoop(t, r.filters[1], 1, <<>>)
                     ELSE [ok |-> TRUE, items |-> <<>>]
            IN  IF ~f.ok
                THEN [ok |-> FALSE, phases |-> <<"grouping", "metrics", "filters">>, error |-> f]
                ELSE [ok |-> TRUE, phases |-> <<"grouping", "metrics", "filters", "assemble">>,
                      stmt |-> Assemble(t, g.items, SelCols(m.items), f.items, r.limit)]

\* ------------------------------------------------------------ the database
\* Table names a request may carry; the database has a table "sales" and none
\* called "orders". The columns a reflection of "sales" may find.
TableNames == {"sales", "orders"}

ColSets == {{"a"}, {"a", "b"}}

InitDB == [n \in TableNames |-> IF n = "sales" THEN Some({"a", "b"}) ELSE None]

\* Table(table_name, local_meta, autoload_with=conn): the reflected table, or
\* None when the catalog has no such table (NoSuchTableError)
Reflect(d, name) == IF d[name] = None THEN None ELSE Some([name |-> name, cols |-> d[name][1]])

\* ------------------------------------------------------------ TABLE_CACHE
\* a lookup that never hits
CacheHasNever(cache, name) == FALSE

\* table_name in TABLE_CACHE
CacheHas(cache, name) == cache[name] # None

\* TABLE_CACHE.setdefault(table_name, tbl): the first write wins
CacheInsertFirst(cache, name, t) == IF cache[name] # None THEN cache ELSE [cache EXCEPT ![name] = Some(t)]

\* TABLE_CACHE[table_name] = tbl
CacheInsert(cache, name, t) == [cache EXCEPT ![name] = Some(t)]

\* ------------------------------------------------------------ requests
Tasks == 1..NumTasks

Body(table, group_by, metrics, filters, limit) ==
    [table |-> table, group_by |-> group_by, metrics |-> metrics, filters |-> filters, limit |-> limit]

Metric(op, column, alias) == [op |-> op, column |-> column, alias |-> alias]

FilterItem(column, op, value) == [column |-> column, op |-> op, value |-> value]

\* sequences over S of length at most n
RECURSIVE SeqsUpTo(_, _)
SeqsUpTo(S, n) ==
    IF n = 0 THEN {<<>>}
    ELSE LET P == SeqsUpTo(S, n - 1) IN P \cup {Append(q, x) : q \in P, x \in S}

\* an optional list: missing, or a list of at most n items of S
OptLists(S, n) == {None} \cup {Some(q) : q \in SeqsUpTo(S, n)}

Limits == {<<"omitted">>, <<"null">>, <<"int", 0>>, <<"int", 2>>, <<"int", -1>>}

GroupSpecs == {"a", "zz", "f(a)"}

Metrics ==
    {Metric("count", None, None), Metric("sum", Some("a"), None), Metric("avg", None, None)}

Filters ==
    {FilterItem("a", "in", <<"list", <<"x", "y">>>>), FilterItem("a", "in", <<"int", 5>>),
     FilterItem("zz", "eq", <<"int", 5>>)}

\* the bodies of the single-request specification
Bodies ==
    {Body(t, g, m, f, l) : t \in TableNames, g \in OptLists(GroupSpecs, MaxGroup),
                           m \in OptLists(Metrics, MaxMetrics),
                           f \in OptLists(Filters, MaxFilters), l \in Limits}

\* the bodies of the concurrent specifications: a table, perhaps grouped by "b"
RaceBodies ==
    {Body(t, g, None, None, <<"omitted">>) : t \in TableNames, g \in {None, Some(<<"b">>)}}

\* ------------------------------------------------------------ POST /query
Init ==
    /\ db = InitDB
    /\ TABLE_CACHE = [n \in TableNames |-> None]
    /\ pc = [i \in Tasks |-> "idle"]
    /\ req = [i \in Tasks |-> None]
    /\ tbl = [i \in Tasks |-> None]
    /\ stmt = [i \in Tasks |-> None]
    /\ resp = [i \in Tasks |-> None]
    /\ log = [i \in Tasks |-> <<>>]
    /\ written = [n \in TableNames |-> <<>>]
    /\ returned = [n \in TableNames |-> {}]
    /\ probe = None

\* a request arrives and is parsed
query_receive(i, bodies) ==
    /\ pc[i] = "idle"
    /\ \E b \in bodies : req' = [req EXCEPT ![i] = Some(b)]
    /\ pc' = [pc EXCEPT ![i] = "get_table"]
    /\ UNCHANGED <<db, TABLE_CACHE, tbl, stmt, resp, log, written, returned, probe>>

\* get_table, lines 40-41: the cached table is returned
get_table_hit(i) ==
    /\ pc[i] = "get_table"
    /\ CacheHas(TABLE_CACHE, req[i][1].table)
    /\ tbl' = [tbl EXCEPT ![i] = TABLE_CACHE[req[i][1].table]]
    /\ returned' = [returned EXCEPT ![req[i][1].table] = @ \cup {TABLE_CACHE[req[i][1].table][1].cols}]
    /\ log' = [log EXCEPT ![i] = <<"resolve">>]
    /\ pc' = [pc EXCEPT ![i] = "compile"]
    /\ UNCHANGED <<db, TABLE_CACHE, req, stmt, resp, written, probe>>

\* get_table, lines 40 and 42: a miss; the task waits for engine.begin()
get_table_miss(i) ==
    /\ pc[i] = "get_table"
    /\ ~CacheHas(TABLE_CACHE, req[i][1].table)
    /\ pc' = [pc EXCEPT ![i] = "reflect"]
    /\ UNCHANGED <<db, TABLE_CACHE, req, tbl, stmt, resp, log, written, returned, probe>>

\* get_table, lines 43-46: the table is reflected, stored and returned (nothing
\* shared is touched between the store and the return)
get_table_reflect(i) ==
    /\ pc[i] = "reflect"
    /\ Reflect(db, req[i][1].table) # None
    /\ LET name == req[i][1].table
           t == Reflect(db, name)[1]
       IN  /\ TABLE_CACHE' = CacheInsert(TABLE_CACHE, name, t)
           /\ written' = [written EXCEPT ![name] = Append(@, t)]
           /\ tbl' = [tbl EXCEPT ![i] = Some(t)]
           /\ returned' = [returned EXCEPT ![name] = @ \cup {t.cols}]
    /\ log' = [log EXCEPT ![i] = <<"resolve">>]
    /\ pc' = [pc EXCEPT ![i] = "compile"]
    /\ UNCHANGED <<db, req, stmt, resp, probe>>

\* get_table, line 44 raises; query, lines 86-87, answers 400
get_table_fail(i) ==
    /\ pc[i] = "reflect"
    /\ Reflect(db, req[i][1].table) = None
    /\ resp' = [resp EXCEPT ![i] = Some(HTTPException(400, "TableNotFoundError",
                   "Table not found or reflection error: " \o req[i][1].table))]
    /\ log' = [log EXCEPT ![i] = <<"resolve">>]
    /\ pc' = [pc EXCEPT ![i] = "done"]
    /\ UNCHANGED <<db, TABLE_CACHE, req, tbl, stmt, written, returned, probe>>

\* query, lines 89-141: no await, so one step
query_compile(i) ==
    /\ pc[i] = "compile"
    /\ LET c == Compile(tbl[i][1], QueryRequest(req[i][1]))
       IN  /\ log' = [log EXCEPT ![i] = @ \o c.phases]
           /\ IF c.ok
              THEN /\ stmt' = [stmt EXCEPT ![i] = Some(c.stmt)]
                   /\ pc' = [pc EXCEPT ![i] = "execute"]
                   /\ resp' = resp
              ELSE /\ resp' = [resp EXCEPT ![i] = Some(c.error)]
                   /\ pc' = [pc EXCEPT ![i] = "done"]
                   /\ stmt' = stmt
    /\ UNCHANGED <<db, TABLE_CACHE, req, tbl, written, returned, probe>>

\* query, lines 143-147: the statement runs and the rows are returned
query_execute(i) ==
    /\ pc[i] = "execute"
    /\ resp' = [resp EXCEPT ![i] = Some([ok |-> TRUE, status |-> 200])]
    /\ log' = [log EXCEPT ![i] = Append(@, "execute")]
    /\ pc' = [pc EXCEPT ![i] = "done"]
    /\ UNCHANGED <<db, TABLE_CACHE, req, tbl, stmt, written, returned, probe>>

\* query, lines 148-149: the database rejects the statement (the model does
\* not decide which statements it rejects)
query_execute_fail(i) ==
    /\ pc[i] = "execute"
    /\ resp' = [resp EXCEPT ![i] = Some(HTTPException(500, "ExecutionError", "str(e)"))]
    /\ log' = [log EXCEPT ![i] = Append(@, "execute")]
    /\ pc' = [pc EXCEPT ![i] = "done"]
    /\ UNCHANGED <<db, TABLE_CACHE, req, tbl, stmt, written, returned, probe>>

\* the response is sent and the task ends; the next request gets a new one
query_respond(i) ==
    /\ pc[i] = "done"
    /\ pc' = [pc EXCEPT ![i] = "idle"]
    /\ req' = [req EXCEPT ![i] = None]
    /\ tbl' = [tbl EXCEPT ![i] = None]
    /\ stmt' = [stmt EXCEPT ![i] = None]
    /\ resp' = [resp EXCEPT ![i] = None]
    /\ log' = [log EXCEPT ![i] = <<>>]
    /\ UNCHANGED <<db, TABLE_CACHE, written, returned, probe>>

\* the environment: the columns of a table of the database are altered
AlterTable ==
    /\ \E n \in TableNames, cs \in ColSets :
          /\ db[n] # None
          /\ db[n][1] # cs
          /\ db' = [db EXCEPT ![n] = Some(cs)]
    /\ UNCHANGED <<TABLE_CACHE, pc, req, tbl, stmt, resp, log, written, returned, probe>>

\* the same, while no first-time resolution of the table is under way (the
\* design's assumption of no schema migration concurrent with a reflection)
AlterTableQuiescent ==
    /\ \E n \in TableNames, cs \in ColSets :
          /\ db[n] # None
          /\ db[n][1] # cs
          /\ \A i \in Tasks : ~(pc[i] = "reflect" /\ req[i][1].table = n)
          /\ db' = [db EXCEPT ![n] = Some(cs)]
    /\ UNCHANGED <<TABLE_CACHE, pc, req, tbl, stmt, resp, log, written, returned, probe>>

Step(i) ==
    \/ get_table_hit(i)
    \/ get_table_miss(i)
    \/ get_table_reflect(i)
    \/ get_table_fail(i)
    \/ query_compile(i)
    \/ query_execute(i)
    \/ query_execute_fail(i)

\* concurrent requests, one task each, and a database whose tables change
Next ==
    \/ \E i \in Tasks : query_receive(i, RaceBodies)
    \/ \E i \in Tasks : Step(i)
    \/ \E i \in Tasks : query_respond(i)
    \/ AlterTable

Spec == Init /\ [][Next]_vars

\* the same, with no schema migration during a first-time resolution
NextStable ==
    \/ \E i \in Tasks : query_receive(i, RaceBodies)
    \/ \E i \in Tasks : Step(i)
    \/ \E i \in Tasks : query_respond(i)
    \/ AlterTableQuiescent

SpecStable == Init /\ [][NextStable]_vars

\* one request at a time, any body
NextQuery ==
    \/ query_receive(1, Bodies)
    \/ Step(1)
    \/ query_respond(1)

SpecQuery == Init /\ [][NextQuery]_vars

\* ------------------------------------------------------------ single items
\* One filter term, metric descriptor or grouping specifier, compiled against
\* a reflected table.
ProbeTables == {[name |-> "sales", cols |-> cs] : cs \in ColSets}

FilterOps ==
    {"eq", "ne", "gt", "lt", "gte", "lte", "in", "like", "=", "!=", ">", "<", ">=", "<=",
     "EQ", "In", "LIKE", "Gte", "between", ""}

Values ==
    {<<"int", 5>>, <<"int", -12>>, <<"str", "x%">>, <<"list", <<"x", "y">>>>, <<"list", <<>>>>,
     <<"null">>}

MetricOps == {"count", "sum", "avg", "max", "min", "COUNT", "Sum", "median", ""}

GroupChars == {"a", "b", "(", ")", ":", " ", "\t"}

\* the strings over S of length at most n
RECURSIVE Strings(_, _)
Strings(S, n) ==
    IF n = 0 THEN {""}
    ELSE LET P == Strings(S, n - 1) IN P \cup {q \o c : q \in P, c \in S}

FilterProbes ==
    {[kind |-> "filter", t |-> t, filter |-> FilterItem(c, op, v), out |-> None] :
        t \in ProbeTables, c \in {"a", "b", "zz"}, op \in FilterOps, v \in Values}

MetricProbes ==
    {[kind |-> "metric", t |-> t, metric |-> Metric(op, c, al), out |-> None] :
        t \in ProbeTables, op \in MetricOps, c \in {None, Some(""), Some("a"), Some("b"), Some("zz")},
        al \in {None, Some(""), Some("total")}}

GroupProbes ==
    {[kind |-> "group", t |-> t, spec |-> g, out |-> None] :
        t \in ProbeTables, g \in Strings(GroupChars, MaxLen)}

InitItem ==
    /\ db = InitDB
    /\ TABLE_CACHE = [n \in TableNames |-> None]
    /\ pc = [i \in Tasks |-> "idle"]
    /\ req = [i \in Tasks |-> None]
    /\ tbl = [i \in Tasks |-> None]
    /\ stmt = [i \in Tasks |-> None]
    /\ resp = [i \in Tasks |-> None]
    /\ log = [i \in Tasks |-> <<>>]
    /\ written = [n \in TableNames |-> <<>>]
    /\ returned = [n \in TableNames |-> {}]
    /\ \/ probe \in FilterProbes
       \/ probe \in MetricProbes
       \/ probe \in GroupProbes

apply_filter ==
    /\ probe.kind = "filter"
    /\ probe.out = None
    /\ probe' = [probe EXCEPT !.out = Some(_apply_filter_clause(probe.t, probe.filter))]
    /\ UNCHANGED <<db, TABLE_CACHE, pc, req, tbl, stmt, resp, log, written, returned>>

apply_metric ==
    /\ probe.kind = "metric"
    /\ probe.out = None
    /\ probe' = [probe EXCEPT !.out = Some(MetricItem(probe.t, probe.metric))]
    /\ UNCHANGED <<db, TABLE_CACHE, pc, req, tbl, stmt, resp, log, written, returned>>

apply_group ==
    /\ probe.kind = "group"
    /\ probe.out = None
    /\ probe' = [probe EXCEPT !.out = Some(GroupItem(probe.t, probe.spec))]
    /\ UNCHANGED <<db, TABLE_CACHE, pc, req, tbl, stmt, resp, log, written, returned>>

NextItem ==
    \/ apply_filter
    \/ apply_metric
    \/ apply_group

SpecItem == InitItem /\ [][NextItem]_vars

\* ============================================================ claims
\* the task has a result of get_table: a table, or the 400 of query
Resolved(i) == pc[i] \in {"compile", "execute", "done"}

TableNotFound(name) ==
    HTTPException(400, "TableNotFoundError", "Table not found or reflection error: " \o name)

\* C1: a resolution of a table the database does not have fails, and query
\* reports it as the caller's fault (400, TableNotFoundError); every resolution
\* of a table the database has returns metadata, and all resolutions of one
\* table, the first and every later one, return the same column set, whatever
\* was resolved in between and however the table was altered since.
C1_ResolveStable ==
    /\ \A i \in Tasks : Resolved(i) =>
          IF db[req[i][1].table] = None
          THEN tbl[i] = None /\ resp[i] = Some(TableNotFound(req[i][1].table))
          ELSE /\ tbl[i] # None
               /\ tbl[i][1].name = req[i][1].table
               /\ returned[req[i][1].table] = {tbl[i][1].cols}
    /\ \A n \in TableNames : Cardinality(returned[n]) <= 1

\* two requests hold the metadata of "sales", reflected once, while the table
\* has other columns by now
C1_Witness ==
    /\ \E i \in Tasks, j \in Tasks :
          /\ i # j
          /\ Resolved(i) /\ Resolved(j)
          /\ tbl[i] # None /\ tbl[j] = tbl[i]
          /\ tbl[i][1].cols # db["sales"][1]
    /\ Len(written["sales"]) = 1

\* in every state: callers of a table the database has hold a reflection of
\* it; the cache holds the last reflection stored; absent tables have no entry
C10_State ==
    /\ \A i \in Tasks : (Resolved(i) /\ db[req[i][1].table] # None) =>
          /\ tbl[i] # None
          /\ tbl[i][1].name = req[i][1].table
          /\ \E k \in 1..Len(written[req[i][1].table]) : written[req[i][1].table][k] = tbl[i][1]
    /\ \A n \in TableNames :
          IF written[n] = <<>> THEN TABLE_CACHE[n] = None
          ELSE TABLE_CACHE[n] = Some(written[n][Len(written[n])])
    /\ \A n \in TableNames : db[n] = None => TABLE_CACHE[n] = None

\* in every step: entries stay, and a failing reflection leaves the cache alone
C10_Step ==
    /\ \A n \in TableNames : TABLE_CACHE[n] # None => TABLE_CACHE'[n] # None
    /\ (\E i \in Tasks : pc[i] = "reflect" /\ resp'[i] # None) => TABLE_CACHE' = TABLE_CACHE

\* C10: however first-time resolutions of one table interleave, every caller
\* gets metadata of the table it asked for; the cache holds for a name no entry
\* before any reflection of it was stored and the last reflection stored ever
\* after; a reflection that fails stores nothing; no entry is ever removed.
C10_LastWriteWins == [](C10_State) /\ [][C10_Step]_vars

\* two callers raced: both reflected "sales", found different columns, and the
\* cache holds the second reflection
C10_Witness ==
    /\ Len(written["sales"]) = 2
    /\ written["sales"][1] # written["sales"][2]
    /\ TABLE_CACHE["sales"] = Some(written["sales"][2])
    /\ \E i \in Tasks, j \in Tasks :
          /\ tbl[i] = Some(written["sales"][1])
          /\ tbl[j] = Some(written["sales"][2])

\* ------------------------------------------------------------ one request
\* the request of task 1, as parsed, and what its lists hold
TheReq == QueryRequest(req[1][1])

ListOf(o) == IF o = None THEN <<>> ELSE o[1]

\* an `in` term whose value is no list
BadIn(f) == Lower(f.op) = "in" /\ f.value[1] # "list"

HasBadIn(fs) == \E k \in 1..Len(fs) : BadIn(fs[k])

\* the indices of the items of a list that do not compile
BadGroups(t, r) == {k \in 1..Len(ListOf(r.group_by)) : ~GroupItem(t, ListOf(r.group_by)[k]).ok}

BadMetrics(t, r) == {k \in 1..Len(ListOf(r.metrics)) : ~MetricItem(t, ListOf(r.metrics)[k]).ok}

BadFilters(t, r) == {k \in 1..Len(ListOf(r.filters)) : ~_apply_filter_clause(t, ListOf(r.filters)[k]).ok}

First(S) == CHOOSE k \in S : \A j \in S : k <= j

Phases == <<"resolve", "grouping", "metrics", "filters", "assemble", "execute">>

\* C2 as stated: a request with a non-list `in` term among its filters fails
\* with ValidationError and is never executed.
C2_Original ==
    (pc[1] = "done" /\ HasBadIn(ListOf(TheReq.filters))) =>
        /\ resp[1][1].status = 400
        /\ resp[1][1].kind = "ValidationError"
        /\ stmt[1] = None

\* C2, amended: a request with a non-list `in` term among its filters never
\* reaches the database and ends in a caller-fault (400) error; the error is
\* ValidationError when the table resolves, the grouping and the metrics
\* compile, and the first filter term that does not compile is such an `in`
\* term on a column of the table.
C2_BadInRejected ==
    (req[1] # None /\ HasBadIn(ListOf(TheReq.filters))) =>
        /\ pc[1] # "execute"
        /\ stmt[1] = None
        /\ "execute" \notin {log[1][k] : k \in 1..Len(log[1])}
        /\ pc[1] = "done" =>
              /\ ~resp[1][1].ok
              /\ resp[1][1].status = 400
              /\ (/\ tbl[1] # None
                  /\ BadGroups(tbl[1][1], TheReq) = {}
                  /\ BadMetrics(tbl[1][1], TheReq) = {}
                  /\ BadIn(TheReq.filters[1][First(BadFilters(tbl[1][1], TheReq))])
                  /\ TheReq.filters[1][First(BadFilters(tbl[1][1], TheReq))].column \in tbl[1][1].cols)
                 => resp[1][1].kind = "ValidationError"

\* a well-formed `in` term with a list, then one with a number: ValidationError
C2_Witness ==
    /\ pc[1] = "done"
    /\ TheReq.filters = Some(<<FilterItem("a", "in", <<"list", <<"x", "y">>>>),
                               FilterItem("a", "in", <<"int", 5>>)>>)
    /\ resp[1][1].kind = "ValidationError"
    /\ log[1] = <<"resolve", "grouping", "metrics", "filters">>

\* C5 as stated: without metrics the statement selects exactly one column,
\* count(*) labelled "count", whatever the grouping and the filters.
C5_Original ==
    (stmt[1] # None /\ ~TruthyList(TheReq.metrics)) =>
        stmt[1][1].select = <<Agg("count", Some("*"), "count")>>

\* C5, amended: without metrics the statement selects the grouping keys, in
\* request order, and then exactly one aggregate, count(*) labelled "count"
\* (so exactly one column when there is no grouping); its conditions are the
\* clauses compiled from the request's filters, one for each, in order.
C5_ImplicitCount ==
    (stmt[1] # None /\ ~TruthyList(TheReq.metrics)) =>
        LET gs == ListOf(TheReq.group_by)
            fs == ListOf(TheReq.filters)
            st == stmt[1][1]
        IN  /\ Len(st.select) = Len(gs) + 1
            /\ \A k \in 1..Len(gs) : st.select[k].kind \in {"col", "text"}
            /\ st.select[Len(gs) + 1] = Agg("count", Some("*"), "count")
            /\ gs = <<>> => st.select = <<Agg("count", Some("*"), "count")>>
            /\ Len(st.where) = Len(fs)
            /\ \A k \in 1..Len(fs) :
                  /\ st.where[k] = _apply_filter_clause(tbl[1][1], fs[k])
                  /\ st.where[k].col = fs[k].column

\* no metrics, a grouping key and a filter: two columns, the key and "count"
C5_Witness ==
    /\ stmt[1] # None
    /\ TheReq.metrics = Some(<<>>)
    /\ TheReq.group_by = Some(<<"a">>)
    /\ Len(ListOf(TheReq.filters)) = 1
    /\ Len(stmt[1][1].select) = 2
    /\ stmt[1][1].select[2].label = "count"

\* C7: the statement carries the limit 1000 when the body has no limit, no
\* limit when the body's limit is null or 0, and the body's limit otherwise.
C7_Limit ==
    stmt[1] # None =>
        LET l == req[1][1].limit
        IN  stmt[1][1].limit = (CASE l[1] = "omitted" -> Some(1000)
                                  [] l[1] = "null" -> None
                                  [] l[1] = "int" /\ l[2] = 0 -> None
                                  [] OTHER -> Some(l[2]))

\* a body with "limit": 0 was compiled to a statement without a limit
C7_Witness == stmt[1] # None /\ req[1][1].limit = <<"int", 0>> /\ stmt[1][1].limit = None

\* C8: the phases run in the order resolve, grouping, metrics, filters,
\* assemble, execute; a request stops in the first phase that has an item that
\* does not compile and answers with the error of the first such item; the
\* statement is executed only when no phase has one.
C8_FailFast ==
    /\ \E n \in 0..Len(Phases) : log[1] = SubSeq(Phases, 1, n)
    /\ pc[1] = "done" =>
          IF db[TheReq.table] = None
          THEN log[1] = SubSeq(Phases, 1, 1) /\ resp[1] = Some(TableNotFound(TheReq.table))
          ELSE LET t == tbl[1][1]
                   bg == BadGroups(t, TheReq)
                   bm == BadMetrics(t, TheReq)
                   bf == BadFilters(t, TheReq)
               IN  IF bg # {}
                   THEN /\ log[1] = SubSeq(Phases, 1, 2)
                        /\ resp[1] = Some(GroupItem(t, TheReq.group_by[1][First(bg)]))
                   ELSE IF bm # {}
                   THEN /\ log[1] = SubSeq(Phases, 1, 3)
                        /\ resp[1] = Some(MetricItem(t, TheReq.metrics[1][First(bm)]))
                   ELSE IF bf # {}
                   THEN /\ log[1] = SubSeq(Phases, 1, 4)
                        /\ resp[1] = Some(_apply_filter_clause(t, TheReq.filters[1][First(bf)]))
                   ELSE /\ log[1] = Phases
                        /\ resp[1][1].status \in {200, 500}
    /\ pc[1] = "execute" => log[1] = SubSeq(Phases, 1, 5)

\* a metric without its column and two filter terms that do not compile: the
\* request stops at the metric
C8_Witness ==
    /\ pc[1] = "done"
    /\ TheReq.metrics = Some(<<Metric("avg", None, None)>>)
    /\ TheReq.filters = Some(<<FilterItem("zz", "eq", <<"int", 5>>), FilterItem("a", "in", <<"int", 5>>)>>)
    /\ resp[1][1].kind = "MissingColumnError"
    /\ log[1] = <<"resolve", "grouping", "metrics">>

\* ------------------------------------------------------------ single items
Applied(kind) == probe # None /\ probe.kind = kind /\ probe.out # None

ClaimedOps == {"eq", "ne", "gt", "lt", "gte", "lte", "in", "like", "=", "!=", ">", "<", ">=", "<="}

AcceptedOps == {"eq", "ne", "in", "like", "=", "!=", ">", "<", ">=", "<="}

\* C3 as stated: on a column of the table, the operators eq, ne, gt, lt, gte,
\* lte, in, like, =, !=, >, <, >=, <= give a clause and every other operator
\* fails with UnsupportedOperatorError.
C3_Original ==
    (Applied("filter") /\ probe.filter.column \in probe.t.cols) =>
        IF probe.filter.op \in ClaimedOps THEN probe.out[1].ok
        ELSE ~probe.out[1].ok /\ probe.out[1].kind = "UnsupportedOperatorError"

\* C3, amended: on a column of the table, the operators accepted are those
\* that, in lower case, are one of eq, ne, in, like, =, !=, >, <, >=, <=; each
\* gives a clause on the column, except `in` with a value that is no list
\* (ValidationError); every other operator, gt, lt, gte and lte among them,
\* fails with UnsupportedOperatorError.
C3_Operators ==
    (Applied("filter") /\ probe.filter.column \in probe.t.cols) =>
        LET f == probe.filter
            out == probe.out[1]
        IN  IF Lower(f.op) \in AcceptedOps
            THEN IF Lower(f.op) = "in" /\ f.value[1] # "list"
                 THEN ~out.ok /\ out.status = 400 /\ out.kind = "ValidationError"
                 ELSE out.ok /\ out.col = f.column
            ELSE ~out.ok /\ out.status = 400 /\ out.kind = "UnsupportedOperatorError"

\* gte on a column of the table: UnsupportedOperatorError
C3_Witness ==
    /\ Applied("filter")
    /\ probe.filter.op = "gte"
    /\ probe.filter.column \in probe.t.cols
    /\ probe.out[1] = HTTPException(400, "UnsupportedOperatorError", "Unsupported filter op: gte")

AggOps == {"count", "sum", "avg", "max", "min"}

\* C4 as stated: sum, avg, max or min without a column fails with
\* MissingColumnError; a column that is given and is not on the table fails
\* with UnknownColumnError; an operation other than count, sum, avg, max, min
\* fails with UnsupportedAggregateError, whatever the column.
C4_Original ==
    Applied("metric") =>
        LET m == probe.metric
            out == probe.out[1]
            op == Lower(m.op)
        IN  /\ (op \in AggOps \ {"count"} /\ ~TruthyStr(m.column))
                  => (~out.ok /\ out.kind = "MissingColumnError")
            /\ (op \in AggOps /\ TruthyStr(m.column) /\ m.column[1] \notin probe.t.cols)
                  => (~out.ok /\ out.kind = "UnknownColumnError")
            /\ op \notin AggOps => (~out.ok /\ out.kind = "UnsupportedAggregateError")

\* C4, amended: an operation other than count (in lower case) without a column
\* fails with MissingColumnError, with a column that is not on the table with
\* UnknownColumnError, and, when it is none of sum, avg, max, min, with a column
\* of the table with UnsupportedAggregateError; count never fails: with a
\* column that is not on the table it compiles to a count of nothing.
C4_MetricErrors ==
    Applied("metric") =>
        LET m == probe.metric
            out == probe.out[1]
            op == Lower(m.op)
            has == m.column # None /\ m.column # Some("")
            known == has /\ m.column[1] \in probe.t.cols
        IN  IF op = "count"
            THEN /\ out.ok
                 /\ out.fn = "count"
                 /\ out.arg = (IF ~has THEN Some("*") ELSE IF known THEN m.column ELSE None)
            ELSE IF ~has THEN ~out.ok /\ out.status = 400 /\ out.kind = "MissingColumnError"
            ELSE IF ~known THEN ~out.ok /\ out.status = 400 /\ out.kind = "UnknownColumnError"
            ELSE IF op \in AggOps THEN out.ok /\ out.fn = op /\ out.arg = m.column
            ELSE ~out.ok /\ out.status = 400 /\ out.kind = "UnsupportedAggregateError"

\* count of a column the table does not have compiles; median without a column
\* is the other case, reached in another state
C4_Witness ==
    /\ Applied("metric")
    /\ probe.metric.op = "count"
    /\ probe.metric.column = Some("zz")
    /\ probe.out[1].ok
    /\ probe.out[1].arg = None

\* C6 as stated: without an alias the label is "{op}_{column}" when a column
\* is given and "{op}_all" when it is not; an alias that is given is the label.
C6_Original ==
    (Applied("metric") /\ probe.out[1].ok) =>
        LET m == probe.metric
        IN  probe.out[1].label =
                (IF m.alias # None THEN m.alias[1]
                 ELSE IF m.column # None THEN Lower(m.op) \o "_" \o m.column[1]
                 ELSE Lower(m.op) \o "_all")

\* C6, amended: an alias that is given and not empty is the label; otherwise
\* the label is the operation in lower case, "_", and the column, or "all"
\* when the column is missing or empty: "count_all", "count_a", "sum_a".
C6_Alias ==
    (Applied("metric") /\ probe.out[1].ok) =>
        LET m == probe.metric
            label == probe.out[1].label
            fn == probe.out[1].fn
        IN  /\ (m.alias # None /\ m.alias # Some("")) => label = m.alias[1]
            /\ (m.alias = None \/ m.alias = Some("")) =>
                  /\ (m.column = None \/ m.column = Some("")) => label = fn \o "_all"
                  /\ (m.column # None /\ m.column # Some("")) => label = fn \o "_" \o m.column[1]
                  /\ (fn = "count" /\ m.column = None) => label = "count_all"
                  /\ (fn = "count" /\ m.column = Some("a")) => label = "count_a"
            /\ fn \in AggOps

\* COUNT with an empty alias and no column is labelled "count_all"
C6_Witness ==
    /\ Applied("metric")
    /\ probe.metric = Metric("COUNT", None, Some(""))
    /\ probe.out[1].ok
    /\ probe.out[1].label = "count_all"

Whitespace == {" ", "\t"}

\* C9 as stated: a specifier is raw exactly when it holds a parenthesis, the
\* cast marker :: or whitespace; a raw one passes verbatim, another one must be
\* a column of the table or fails with UnknownColumnError.
C9_Original ==
    Applied("group") =>
        LET g == probe.spec
            raw == \/ Contains(g, "(") \/ Contains(g, ")") \/ Contains(g, "::")
                   \/ \E k \in 1..Len(g) : SubSeq(g, k, k) \in Whitespace
        IN  IF raw THEN probe.out[1] = [ok |-> TRUE, kind |-> "text", sql |-> g]
            ELSE IF g \in probe.t.cols THEN probe.out[1] = [ok |-> TRUE, kind |-> "col", name |-> g]
            ELSE ~probe.out[1].ok /\ probe.out[1].kind = "UnknownColumnError"

\* C9, amended: a specifier is raw exactly when it holds an opening
\* parenthesis, the cast marker :: or a space character (anywhere in it); a raw
\* one passes verbatim, without a look at the columns; another one must be a
\* column of the table or fails with UnknownColumnError.
C9_Raw ==
    Applied("group") =>
        LET g == probe.spec
            raw == \/ \E k \in 1..Len(g) : SubSeq(g, k, k) \in {"(", " "}
                   \/ \E k \in 1..(Len(g) - 1) : SubSeq(g, k, k) = ":" /\ SubSeq(g, k + 1, k + 1) = ":"
        IN  IF raw THEN probe.out[1] = [ok |-> TRUE, kind |-> "text", sql |-> g]
            ELSE IF g \in probe.t.cols THEN probe.out[1] = [ok |-> TRUE, kind |-> "col", name |-> g]
            ELSE /\ ~probe.out[1].ok
                 /\ probe.out[1].status = 400
                 /\ probe.out[1].kind = "UnknownColumnError"

\* "a::" names no column and passes as raw text; "a)" would not
C9_Witness ==
    /\ Applied("group")
    /\ probe.spec = "a::"
    /\ probe.out[1] = [ok |-> TRUE, kind |-> "text", sql |-> "a::"]

====
